---- MODULE Spec2Model ----
(***************************************************************************)
(* Model of the DMR multi-talkgroup audio coordinator:                     *)
(*   - DMRAudioDuckingEngine      (src/unnamed/part_000, the engine that   *)
(*     MultiRoomLiveKitClient constructs)                                  *)
(*   - MultiRoomLiveKitClient     (src/lib/MultiRoomLiveKitClient.ts)      *)
(*   - useMultiTalkgroupStore     (src/lib/serverLogger.ts, lines 272-552) *)
(*                                                                         *)
(* Gains and volumes are fixed-point numbers in units of 1/10000, so that  *)
(* 1.0 is 10000, 0.8 is 8000 and the tolerance 0.0001 of the testable      *)
(* properties is 1.  A GainNode is represented by the target of the most   *)
(* recently issued schedule command (setValueAtTime or                     *)
(* linearRampToValueAtTime).                                               *)
(***************************************************************************)
EXTENDS Integers, Sequences, FiniteSets, TLC

VARIABLES
    duckingEngine,    \* MultiRoomLiveKitClient.duckingEngine: the engine's fields (created = FALSE: null)
    rooms,            \* MultiRoomLiveKitClient.rooms: ids that have a connected session
    sessionSpeakers,  \* per session: first participant of its last reported speaker list, or NoSpeaker
    micEnabled,       \* per session: localParticipant.isMicrophoneEnabled
    store,            \* useMultiTalkgroupStore state
    page,             \* TalkGroupsPage: selectedTransmitRoom and its handleTransmitRoomChange calls
    connection        \* the last connect() call: its promise, its rooms, and connectToRoom's loop per room

vars == <<duckingEngine, rooms, sessionSpeakers, micEnabled, store, page, connection>>

-----------------------------------------------------------------------------
(* Talkgroups that connection details can carry.                           *)

AllRooms == {"emg", "gen", "rd", "adh"}

\* Room lists handed to initializeRooms() when the engine is driven directly.
RoomSets == {{"emg", "gen", "rd"}, {"emg", "rd", "adh"}}

\* Room lists of the connection details handed to connect().
ConnectionRoomSets == {{"emg", "gen"}, {"gen", "rd"}}

\* An id that no connection details carry.
GhostRoom == "ghost"

RoomType(roomId) ==
    CASE roomId = "emg" -> "static-priority"
      [] roomId \in {"gen", "fire", "police", "ems"} -> "static-secondary"
      [] roomId = "rd"  -> "dynamic"
      [] OTHER          -> "adhoc"

RoomPriority(roomId) ==
    CASE roomId = "emg" -> 100
      [] roomId \in {"gen", "fire", "police"} -> 80
      [] roomId = "ems" -> 75
      [] roomId = "rd"  -> 50
      [] OTHER          -> 40

HoldTimeSeconds(roomId) ==
    CASE roomId = "emg" -> 0
      [] roomId \in {"gen", "fire", "police", "ems"} -> 2
      [] OTHER          -> 3

\* Identities of remote participants, as minted by the token route
\* (name__postfix), plus a participant whose identity is the literal "unknown".
Identities == {"p1", "unknown"}

MaxSpeakers == 2

\* Speaker lists a session can report: no participant twice.
SpeakerLists ==
    {s \in UNION {[1..n -> Identities] : n \in 0..MaxSpeakers} :
        \A i, j \in 1..Len(s) : i # j => s[i] # s[j]}

FullGain == 10000

EmergencyFloor == 8000

Epsilon == FullGain \div 10000

\* Volumes the user interface hands to setRoomVolume.
Volumes == {0, FullGain \div 2, FullGain}

\* Partial settings objects passed to setUserSettings.
SettingsArgs ==
    {[isMuted |-> m] : m \in BOOLEAN} \cup {[volume |-> v] : v \in Volumes}

\* Number of talkgroups whose settings the user changes in one session.
MaxConfiguredRooms == 1

NoSpeaker == "none"

NoRoom == "null"

\* Numbers that are no finite value: the infinities lie beyond every finite
\* volume of the model, NaN is a value of its own that every Math function
\* and product hands on.
PosInfinity == 1000 * FullGain

NegInfinity == 0 - PosInfinity

NaN == PosInfinity + 1

\* Numbers a caller can hand to setRoomVolume: below 0, within [0,1], above 1,
\* and the values that are no finite number.
VolumeInputs ==
    {NegInfinity, 0 - (FullGain \div 2), FullGain \div 2, FullGain,
     (3 * FullGain) \div 2, PosInfinity, NaN}

\* Math.max(a, b)
Max(a, b) == IF a = NaN \/ b = NaN THEN NaN ELSE IF a >= b THEN a ELSE b

\* Math.min(a, b)
Min(a, b) == IF a = NaN \/ b = NaN THEN NaN ELSE IF a <= b THEN a ELSE b

\* 0.1 * v
Tenth(v) == IF v \in {NaN, PosInfinity, NegInfinity} THEN v ELSE v \div 10

-----------------------------------------------------------------------------
(* DMRAudioDuckingEngine                                                    *)

ConfigEnabled == TRUE

DefaultHoldMs == 3000

\* State after the constructor: every map is empty.
NewEngine ==
    [ created        |-> TRUE,
      roomData       |-> {},
      activeSpeakers |-> {},
      gainNodes      |-> [r \in {} |-> 0],
      userSettings   |-> [r \in {} |-> [isMuted |-> FALSE, volume |-> FullGain]],
      holdTimeouts   |-> {} ]

\* this.duckingEngine = null: no engine object, nothing to call.
NoEngine == [NewEngine EXCEPT !.created = FALSE]

\* getUserVolume without its isMuted test.
GetUserVolumeIgnoringMute(e, roomId) ==
    IF roomId \in DOMAIN e.userSettings THEN e.userSettings[roomId].volume ELSE FullGain

GetUserVolume(e, roomId) ==
    IF roomId \in DOMAIN e.userSettings
    THEN IF e.userSettings[roomId].isMuted THEN 0 ELSE e.userSettings[roomId].volume
    ELSE FullGain

GetPriorityType(priority) ==
    IF priority >= 100 THEN "static-priority"
    ELSE IF priority >= 80 THEN "static-secondary"
    ELSE IF priority >= 50 THEN "dynamic"
    ELSE "adhoc"

InitializeRooms(e, roomList) ==
    LET initialVolume(r) ==
            IF r \in DOMAIN e.userSettings
            THEN IF e.userSettings[r].isMuted THEN 0 ELSE e.userSettings[r].volume
            ELSE FullGain
    IN  [e EXCEPT
            !.roomData  = @ \cup roomList,
            !.gainNodes = [r \in (DOMAIN @) \cup roomList |->
                              IF r \in roomList THEN initialVolume(r) ELSE @[r]]]

HasActiveSpeaker(e, roomId) == \E s \in e.activeSpeakers : s[1] = roomId

CalculateTargetGain(e, roomId, highestPriorityType) ==
    IF HasActiveSpeaker(e, roomId) THEN GetUserVolume(e, roomId)
    ELSE IF highestPriorityType = "static-priority"
         THEN IF RoomType(roomId) = "static-priority" THEN FullGain ELSE 0
    ELSE IF highestPriorityType = "static-secondary"
         THEN IF RoomType(roomId) = "static-secondary" THEN GetUserVolume(e, roomId)
              ELSE IF RoomType(roomId) \in {"dynamic", "adhoc"}
                   THEN Tenth(GetUserVolume(e, roomId))
              ELSE GetUserVolume(e, roomId)
    ELSE IF highestPriorityType = "dynamic" THEN GetUserVolume(e, roomId)
    ELSE IF RoomType(roomId) = "static-priority"
         THEN Max(GetUserVolume(e, roomId), EmergencyFloor)
    ELSE GetUserVolume(e, roomId)

RestoreAllVolumes(e) ==
    [e EXCEPT !.gainNodes = [r \in DOMAIN @ |-> GetUserVolume(e, r)]]

HighestPriority(e) ==
    CHOOSE p \in {RoomPriority(s[1]) : s \in e.activeSpeakers} :
        \A s \in e.activeSpeakers : RoomPriority(s[1]) <= p

\* config.emergencyOverrideMs, config.staticSecondaryDuckMs and
\* config.dynamicDuckMs, in milliseconds.
EmergencyOverrideMs == 50

StaticSecondaryDuckMs == 100

DynamicDuckMs == 150

GetResponseTime(type) ==
    CASE type = "static-priority"  -> EmergencyOverrideMs
      [] type = "static-secondary" -> StaticSecondaryDuckMs
      [] OTHER                     -> DynamicDuckMs

\* updateAllGainLevels: the duration of the ramp it schedules for a room,
\* responseTime = getResponseTime(room.type).
ResponseTime(roomId) == GetResponseTime(RoomType(roomId))

\* updateAllGainLevels: highestPriorityType
HighestPriorityType(e) == GetPriorityType(HighestPriority(e))

UpdateAllGainLevels(e) ==
    IF e.activeSpeakers = {} THEN RestoreAllVolumes(e)
    ELSE LET highestPriorityType == HighestPriorityType(e)
         IN  [e EXCEPT !.gainNodes =
                 [r \in DOMAIN @ |->
                     IF r \in e.roomData
                     THEN CalculateTargetGain(e, r, highestPriorityType)
                     ELSE @[r]]]

\* A clearHoldTimeout that leaves the timer running.
KeepHoldTimeout(e, roomId) == e

ClearHoldTimeout(e, roomId) == [e EXCEPT !.holdTimeouts = @ \ {roomId}]

StartHoldTimeoutImmediate(e, roomId, holdTimeMs) ==
    UpdateAllGainLevels(ClearHoldTimeout(e, roomId))

StartHoldTimeout(e, roomId, holdTimeMs) ==
    LET cleared == ClearHoldTimeout(e, roomId)
    IN  IF holdTimeMs > 0
        THEN [cleared EXCEPT !.holdTimeouts = @ \cup {roomId}]
        ELSE UpdateAllGainLevels(cleared)

\* room.holdTimeSeconds * 1000 || this.config.defaultHoldMs
HoldTime(roomId) ==
    IF HoldTimeSeconds(roomId) * 1000 # 0
    THEN HoldTimeSeconds(roomId) * 1000
    ELSE DefaultHoldMs

OnSpeakerEventUnchecked(e, roomId, participantId, isSpeaking) ==
    IF isSpeaking
    THEN UpdateAllGainLevels(
             ClearHoldTimeout(
                 [e EXCEPT !.activeSpeakers = @ \cup {<<roomId, participantId>>}],
                 roomId))
    ELSE IF <<roomId, participantId>> \in e.activeSpeakers
         THEN StartHoldTimeout(
                  [e EXCEPT !.activeSpeakers = @ \ {<<roomId, participantId>>}],
                  roomId, HoldTime(roomId))
    ELSE e

OnSpeakerEvent(e, roomId, participantId, isSpeaking) ==
    IF ~ConfigEnabled THEN e
    ELSE IF roomId \notin e.roomData THEN e
    ELSE IF isSpeaking
         THEN UpdateAllGainLevels(
                  ClearHoldTimeout(
                      [e EXCEPT !.activeSpeakers = @ \cup {<<roomId, participantId>>}],
                      roomId))
    ELSE IF <<roomId, participantId>> \in e.activeSpeakers
         THEN StartHoldTimeout(
                  [e EXCEPT !.activeSpeakers = @ \ {<<roomId, participantId>>}],
                  roomId, HoldTime(roomId))
    ELSE e

\* A callback that would also forget the speakers of its talkgroup.
HoldTimeoutExpiredForgetting(e, roomId) ==
    LET kept == [e EXCEPT !.activeSpeakers = {s \in @ : s[1] # roomId}]
    IN  [UpdateAllGainLevels(kept) EXCEPT !.holdTimeouts = @ \ {roomId}]

\* The callback of the timer that startHoldTimeout sets.
HoldTimeoutExpired(e, roomId) ==
    [UpdateAllGainLevels(e) EXCEPT !.holdTimeouts = @ \ {roomId}]

SetUserSettings(e, roomId, settings) ==
    LET existing == IF roomId \in DOMAIN e.userSettings
                    THEN e.userSettings[roomId]
                    ELSE [isMuted |-> FALSE, volume |-> FullGain]
        updated  == [f \in {"isMuted", "volume"} |->
                        IF f \in DOMAIN settings THEN settings[f] ELSE existing[f]]
        stored   == [e EXCEPT !.userSettings =
                        [r \in (DOMAIN @) \cup {roomId} |->
                            IF r = roomId THEN updated ELSE @[r]]]
    IN  IF roomId \in DOMAIN e.gainNodes
        THEN [stored EXCEPT !.gainNodes[roomId] =
                 IF updated.isMuted THEN 0 ELSE updated.volume]
        ELSE stored

EngineEmergencyOverride(e, roomId) ==
    IF roomId \notin e.roomData \/ RoomType(roomId) # "static-priority" THEN e
    ELSE LET forced == [e EXCEPT !.gainNodes =
                           [r \in DOMAIN @ |-> IF r # roomId THEN 0 ELSE FullGain]]
         IN  OnSpeakerEvent(forced, roomId, "emergency-override", TRUE)

\* The user changes the settings of at most MaxConfiguredRooms talkgroups.
WithinConfigured(e, roomId) ==
    \/ roomId \in DOMAIN e.userSettings
    \/ Cardinality(DOMAIN e.userSettings) < MaxConfiguredRooms

-----------------------------------------------------------------------------
(* useMultiTalkgroupStore                                                   *)

AutoJoinStatic == TRUE

DefaultVolume == FullGain

NewStore ==
    [ isConnected       |-> FALSE,
      talkgroups        |-> [r \in {} |-> [isJoined |-> FALSE, isMuted |-> FALSE,
                                            volume |-> DefaultVolume,
                                            isActiveSpeaker |-> FALSE]],
      activeSpeakers    |-> {},
      priorityOrder     |-> <<>>,
      isEmergencyActive |-> FALSE,
      emergencyRoomId   |-> NoRoom ]

\* The lists that hold every room of a set once: the orders in which
\* connection details can carry the rooms.
Orderings(roomList) ==
    {list \in [1..Cardinality(roomList) -> roomList] :
        \A i, j \in 1..Cardinality(roomList) : i # j => list[i] # list[j]}

Range(list) == {list[i] : i \in 1..Len(list)}

RECURSIVE SortByPriority(_)
\* priorityOrder.sort((a, b) => roomB.priority - roomA.priority): Array.sort
\* is stable, so each room comes after the rooms before it in the list whose
\* priority is not lower.
SortByPriority(list) ==
    IF list = <<>> THEN <<>>
    ELSE LET sorted == SortByPriority(SubSeq(list, 1, Len(list) - 1))
             room   == list[Len(list)]
             k      == Cardinality({i \in 1..Len(sorted) :
                                      RoomPriority(sorted[i]) >= RoomPriority(room)})
         IN  SubSeq(sorted, 1, k) \o <<room>> \o SubSeq(sorted, k + 1, Len(sorted))

\* A connect that takes the order of the rooms as it comes.
StoreConnectUnsorted(s, details) ==
    [s EXCEPT
        !.isConnected = TRUE,
        !.talkgroups  =
            [r \in Range(details) |->
                [ isJoined        |-> AutoJoinStatic
                                      /\ RoomType(r) \in {"static-priority", "static-secondary"},
                  isMuted         |-> FALSE,
                  volume          |-> DefaultVolume,
                  isActiveSpeaker |-> FALSE ]],
        !.priorityOrder = details]

\* connect(connectionDetails), details being connectionDetails.rooms.
StoreConnect(s, details) ==
    [s EXCEPT
        !.isConnected = TRUE,
        !.talkgroups  =
            [r \in Range(details) |->
                [ isJoined        |-> AutoJoinStatic
                                      /\ RoomType(r) \in {"static-priority", "static-secondary"},
                  isMuted         |-> FALSE,
                  volume          |-> DefaultVolume,
                  isActiveSpeaker |-> FALSE ]],
        !.priorityOrder = SortByPriority(details)]

JoinTalkgroup(s, roomId) ==
    IF roomId \in DOMAIN s.talkgroups
    THEN [s EXCEPT !.talkgroups[roomId].isJoined = TRUE]
    ELSE s

LeaveTalkgroup(s, roomId) ==
    IF roomId \in DOMAIN s.talkgroups
    THEN [s EXCEPT !.talkgroups[roomId].isJoined = FALSE,
                   !.talkgroups[roomId].isActiveSpeaker = FALSE,
                   !.activeSpeakers = @ \ {roomId}]
    ELSE s

\* A disconnect that only marks the store as disconnected.
StoreDisconnectStatusOnly(s) == [s EXCEPT !.isConnected = FALSE]

\* A toggle that only ever mutes.
ToggleMuteOn(s, roomId) ==
    IF roomId \in DOMAIN s.talkgroups
    THEN [s EXCEPT !.talkgroups[roomId].isMuted = TRUE]
    ELSE s

ToggleMute(s, roomId) ==
    IF roomId \in DOMAIN s.talkgroups
    THEN [s EXCEPT !.talkgroups[roomId].isMuted = ~@]
    ELSE s

\* Math.max(0, Math.min(1, volume))
Clamp(volume) == Max(0, Min(FullGain, volume))

SetVolume(s, roomId, volume) ==
    IF roomId \in DOMAIN s.talkgroups
    THEN [s EXCEPT !.talkgroups[roomId].volume = Clamp(volume)]
    ELSE s

SetSpeaking(s, roomId, isSpeaking) ==
    IF roomId \in DOMAIN s.talkgroups /\ s.talkgroups[roomId].isJoined
    THEN LET emergency == RoomType(roomId) = "static-priority" /\ isSpeaking
         IN  [s EXCEPT
                 !.talkgroups[roomId].isActiveSpeaker = isSpeaking,
                 !.activeSpeakers    = IF isSpeaking THEN @ \cup {roomId} ELSE @ \ {roomId},
                 !.isEmergencyActive = emergency,
                 !.emergencyRoomId   = IF emergency THEN roomId ELSE NoRoom]
    ELSE s

SetEmergencyActive(s, roomId) ==
    [s EXCEPT !.isEmergencyActive = (roomId # NoRoom),
              !.emergencyRoomId   = roomId]

StoreDisconnect(s) ==
    [s EXCEPT !.isConnected       = FALSE,
              !.talkgroups        = [r \in {} |-> [isJoined |-> FALSE, isMuted |-> FALSE,
                                                    volume |-> DefaultVolume,
                                                    isActiveSpeaker |-> FALSE]],
              !.activeSpeakers    = {},
              !.priorityOrder     = <<>>,
              !.isEmergencyActive = FALSE,
              !.emergencyRoomId   = NoRoom]

-----------------------------------------------------------------------------
(* TalkGroupsPage: the transmit selection.                                  *)

\* useState<string>(''): no talkgroup is selected for transmission.
NoTransmitRoom == ""

\* handleTransmitRoomChange calls whose awaited microphone operations overlap.
MaxTransmitCalls == 2

\* The page after mounting.  transmitCalls holds the calls of
\* handleTransmitRoomChange: for each the talkgroup to enable, the talkgroups
\* of its disablePromises, those whose promise has not settled, and whether
\* the call has returned.
NewPage == [selectedTransmitRoom |-> NoTransmitRoom, transmitCalls |-> <<>>]

\* canPublish: talkgroup.canTransmit, true for every talkgroup the route serves.
CanPublish(roomId) == TRUE

-----------------------------------------------------------------------------
(* MultiRoomLiveKitClient.  An awaited session call (room.connect,          *)
(* setMicrophoneEnabled) is taken together with the code that follows it.   *)

\* Room objects that the timeout abandons in one behaviour.
MaxAbandoned == 1

\* connectToRoom: maxRetries
MaxRetries == 3

\* connectToRoom: the first factor and the cap of the delay before a retry,
\* in milliseconds.
RetryBaseMs == 1000

RetryCapMs == 5000

RECURSIVE Pow2(_)
\* Math.pow(2, n)
Pow2(n) == IF n = 0 THEN 1 ELSE 2 * Pow2(n - 1)

\* Math.min(1000 * Math.pow(2, retryCount), 5000)
RetryDelay(retryCount) == Min(RetryBaseMs * Pow2(retryCount), RetryCapMs)

\* No connect() has been called.  abandoned holds the Room objects whose
\* attempt the timeout ended while room.connect was pending, strays those of
\* them that connected afterwards, each with the speaker it reports.
\* micCalls holds the calls of joinRoom and leaveRoom that are awaiting their
\* setMicrophoneEnabled.
NoConnection ==
    [status |-> "idle", details |-> {}, attempts |-> [r \in {} |-> 0],
     abandoned |-> {}, strays |-> {}, micCalls |-> {}]

\* connectToRoom at the start of its loop: retryCount = 0, the first attempt
\* under way, no delay awaited yet.
FirstAttempt == [retryCount |-> 0, phase |-> "attempting", delay |-> 0]

\* connect() whose every connectToRoom succeeded at its first attempt.
ConnectedAtOnce(roomList) ==
    [status |-> "resolved", details |-> roomList,
     attempts |-> [r \in roomList |-> [FirstAttempt EXCEPT !.phase = "connected"]],
     abandoned |-> {}, strays |-> {}, micCalls |-> {}]

Init ==
    /\ duckingEngine = NoEngine
    /\ rooms = {}
    /\ sessionSpeakers = [r \in {} |-> NoSpeaker]
    /\ micEnabled = [r \in {} |-> FALSE]
    /\ store = NewStore
    /\ page = NewPage
    /\ connection = NoConnection

\* Room ids the user interface or a caller passes to the controller: the
\* talkgroup cards of the store, and an id that has none.
RoomArgs == (DOMAIN store.talkgroups) \cup {GhostRoom}

\* connect(connectionDetails), every session connecting; details is the
\* order in which the connection details carry the rooms.
Connect ==
    \E roomList \in ConnectionRoomSets : \E details \in Orderings(roomList) :
        /\ ~duckingEngine.created
        /\ duckingEngine' = InitializeRooms(NewEngine, roomList)
        /\ rooms' = roomList
        /\ sessionSpeakers' = [r \in roomList |-> NoSpeaker]
        /\ micEnabled' = [r \in roomList |-> FALSE]
        /\ store' = StoreConnect(store, details)
        /\ connection' = ConnectedAtOnce(roomList)
        /\ UNCHANGED page

\* The handler of RoomEvent.ActiveSpeakersChanged of the session of roomId,
\* called with the session's new list of speakers.
OnActiveSpeakersChanged(roomId, speakers) ==
    LET isSpeaking    == Len(speakers) > 0
        participantId == IF Len(speakers) > 0 THEN speakers[1] ELSE "unknown"
    IN  /\ ~(speakers = <<>> /\ sessionSpeakers[roomId] = NoSpeaker)
        /\ sessionSpeakers' =
               [sessionSpeakers EXCEPT ![roomId] =
                   IF isSpeaking THEN speakers[1] ELSE NoSpeaker]
        /\ duckingEngine' =
               IF duckingEngine.created
               THEN OnSpeakerEvent(duckingEngine, roomId, participantId, isSpeaking)
               ELSE duckingEngine
        /\ store' = SetSpeaking(store, roomId, isSpeaking)
        /\ UNCHANGED <<rooms, micEnabled, page, connection>>

ActiveSpeakersChanged ==
    \E roomId \in rooms, speakers \in SpeakerLists :
        OnActiveSpeakersChanged(roomId, speakers)

\* The earlier joinRoom awaits the microphone before it tells the store, so
\* a denied microphone rejects the call and the store is never told.
StoreAfterJoinMicrophoneFirst(s, roomId, micGranted) ==
    IF micGranted THEN JoinTalkgroup(s, roomId) ELSE s

\* The store is told first; what the microphone answers comes too late to
\* matter to it.
StoreAfterJoin(s, roomId, micGranted) == JoinTalkgroup(s, roomId)

\* joinRoom(roomId); the microphone is enabled, or enabling it is denied.
\* For an id without a session the method returns at once.

JoinRoomCall(roomId, micGranted) ==
    /\ roomId \in rooms
    /\ store' = StoreAfterJoin(store, roomId, micGranted)
    /\ micEnabled' = IF micGranted THEN [micEnabled EXCEPT ![roomId] = TRUE]
                     ELSE micEnabled
    /\ UNCHANGED <<duckingEngine, rooms, sessionSpeakers, page, connection>>

JoinRoom ==
    \E roomId \in RoomArgs, micGranted \in BOOLEAN : JoinRoomCall(roomId, micGranted)

\* leaveRoom(roomId), the microphone being disabled before the store is told.
LeaveRoom ==
    \E roomId \in RoomArgs :
        /\ roomId \in rooms
        /\ micEnabled' = [micEnabled EXCEPT ![roomId] = FALSE]
        /\ store' = LeaveTalkgroup(store, roomId)
        /\ UNCHANGED <<duckingEngine, rooms, sessionSpeakers, page, connection>>

\* muteRoom(roomId, muted)
MuteRoomCall(roomId, muted) ==
    /\ WithinConfigured(duckingEngine, roomId)
    /\ duckingEngine' =
           IF duckingEngine.created
           THEN SetUserSettings(duckingEngine, roomId, [isMuted |-> muted])
           ELSE duckingEngine
    /\ store' = ToggleMute(store, roomId)
    /\ UNCHANGED <<rooms, sessionSpeakers, micEnabled, page, connection>>

MuteRoom == \E roomId \in RoomArgs, muted \in BOOLEAN : MuteRoomCall(roomId, muted)

\* setRoomVolume(roomId, volume)
SetRoomVolumeCall(roomId, volume) ==
    /\ WithinConfigured(duckingEngine, roomId)
    /\ duckingEngine' =
           IF duckingEngine.created
           THEN SetUserSettings(duckingEngine, roomId, [volume |-> volume])
           ELSE duckingEngine
    /\ store' = SetVolume(store, roomId, volume)
    /\ UNCHANGED <<rooms, sessionSpeakers, micEnabled, page, connection>>

SetRoomVolume ==
    \E roomId \in RoomArgs, volume \in Volumes : SetRoomVolumeCall(roomId, volume)

\* setRoomVolume(roomId, volume) with any number.
SetRoomVolumeAny ==
    \E roomId \in RoomArgs, volume \in VolumeInputs : SetRoomVolumeCall(roomId, volume)

\* handleToggleMute(roomId): muteRoom(roomId, !connection.isMuted) for a
\* talkgroup of the store.
HandleToggleMute ==
    \E roomId \in RoomArgs :
        /\ roomId \in DOMAIN store.talkgroups
        /\ MuteRoomCall(roomId, ~store.talkgroups[roomId].isMuted)

\* emergencyOverride(roomId)
EmergencyOverrideCall(roomId) ==
    /\ duckingEngine' =
           IF duckingEngine.created
           THEN EngineEmergencyOverride(duckingEngine, roomId)
           ELSE duckingEngine
    /\ store' = SetEmergencyActive(store, roomId)
    /\ UNCHANGED <<rooms, sessionSpeakers, micEnabled, page, connection>>

EmergencyOverride == \E roomId \in RoomArgs : EmergencyOverrideCall(roomId)

\* RoomEvent.Disconnected of the session of roomId: this.rooms.delete(roomName).
\* The session is gone: it reports no speakers and publishes no microphone.
OnSessionDisconnected(roomId) ==
    /\ roomId \in rooms
    /\ rooms' = rooms \ {roomId}
    /\ sessionSpeakers' = [sessionSpeakers EXCEPT ![roomId] = NoSpeaker]
    /\ micEnabled' = [micEnabled EXCEPT ![roomId] = FALSE]
    /\ UNCHANGED <<duckingEngine, store, page, connection>>

SessionDisconnected == \E roomId \in AllRooms : OnSessionDisconnected(roomId)

\* disconnect(): every session is disconnected, the engine destroyed and
\* dropped, the store reset.
Disconnect ==
    /\ duckingEngine.created
    /\ duckingEngine' = NoEngine
    /\ rooms' = {}
    /\ sessionSpeakers' = [r \in {} |-> NoSpeaker]
    /\ micEnabled' = [r \in {} |-> FALSE]
    /\ store' = StoreDisconnect(store)
    /\ UNCHANGED <<page, connection>>

-----------------------------------------------------------------------------
(* TalkGroupsPage.handleTransmitRoomChange, one step per await.             *)

AllReturned(calls) == \A i \in 1..Len(calls) : calls[i].returned

\* handleTransmitRoomChange(roomId) up to its first await: the selection is
\* recorded and setPushToTalk(r, false) is issued for every other joined
\* talkgroup; setPushToTalk returns at once for an id without a session.
TransmitRoomChange(roomId) ==
    LET previous == IF AllReturned(page.transmitCalls) THEN <<>> ELSE page.transmitCalls
        others   == {r \in DOMAIN store.talkgroups :
                        store.talkgroups[r].isJoined /\ r # roomId}
        call     == [target   |-> roomId,
                     others   |-> others,
                     pending  |-> others \cap rooms,
                     returned |-> FALSE]
    IN  /\ roomId \in DOMAIN store.talkgroups
        /\ store.talkgroups[roomId].isJoined
        /\ Len(previous) < MaxTransmitCalls
        /\ page' = [selectedTransmitRoom |-> roomId,
                    transmitCalls        |-> Append(previous, call)]
        /\ UNCHANGED <<duckingEngine, rooms, sessionSpeakers, micEnabled, store, connection>>

HandleTransmitRoomChange == \E roomId \in RoomArgs : TransmitRoomChange(roomId)

\* setMicrophoneEnabled(false) of call i on roomId settles: the microphone is
\* off, or the operation is rejected and the rejection logged.
DisableSettles(i, roomId, ok) ==
    /\ i \in 1..Len(page.transmitCalls)
    /\ roomId \in page.transmitCalls[i].pending
    /\ micEnabled' = IF ok /\ roomId \in rooms
                     THEN [micEnabled EXCEPT ![roomId] = FALSE]
                     ELSE micEnabled
    /\ page' = [page EXCEPT !.transmitCalls[i].pending = @ \ {roomId}]
    /\ UNCHANGED <<duckingEngine, rooms, sessionSpeakers, store, connection>>

MicrophoneDisableSettles ==
    \E i \in 1..MaxTransmitCalls, roomId \in AllRooms, ok \in BOOLEAN :
        DisableSettles(i, roomId, ok)

\* After Promise.all(disablePromises): setPushToTalk(target, true) of call i,
\* taken together with its settling, and the return of the call.
EnableSettles(i, ok) ==
    /\ i \in 1..Len(page.transmitCalls)
    /\ ~page.transmitCalls[i].returned
    /\ page.transmitCalls[i].pending = {}
    /\ micEnabled' = IF ok /\ page.transmitCalls[i].target \in rooms
                     THEN [micEnabled EXCEPT ![page.transmitCalls[i].target] = TRUE]
                     ELSE micEnabled
    /\ page' = [page EXCEPT !.transmitCalls[i].returned = TRUE]
    /\ UNCHANGED <<duckingEngine, rooms, sessionSpeakers, store, connection>>

MicrophoneEnableSettles ==
    \E i \in 1..MaxTransmitCalls, ok \in BOOLEAN : EnableSettles(i, ok)

TransmitNext ==
    \/ Connect
    \/ JoinRoom
    \/ LeaveRoom
    \/ HandleTransmitRoomChange
    \/ MicrophoneDisableSettles
    \/ MicrophoneEnableSettles
    \/ SessionDisconnected
    \/ Disconnect

TransmitSpec == Init /\ [][TransmitNext]_vars

-----------------------------------------------------------------------------
(* The engine driven directly through its public methods.                   *)

EngineInit ==
    /\ duckingEngine = NewEngine
    /\ rooms = {}
    /\ sessionSpeakers = [r \in {} |-> NoSpeaker]
    /\ micEnabled = [r \in {} |-> FALSE]
    /\ store = NewStore
    /\ page = NewPage
    /\ connection = NoConnection

\* initializeRooms(rooms), called once on a new engine as connect() does.
CallInitializeRooms ==
    \E roomList \in RoomSets :
        /\ duckingEngine.roomData = {}
        /\ duckingEngine' = InitializeRooms(duckingEngine, roomList)
        /\ UNCHANGED <<rooms, sessionSpeakers, micEnabled, store, page, connection>>

CallOnSpeakerEvent ==
    \E roomId \in AllRooms, participantId \in Identities, isSpeaking \in BOOLEAN :
        /\ duckingEngine' = OnSpeakerEvent(duckingEngine, roomId, participantId, isSpeaking)
        /\ UNCHANGED <<rooms, sessionSpeakers, micEnabled, store, page, connection>>

CallSetUserSettings ==
    \E roomId \in AllRooms, settings \in SettingsArgs :
        /\ WithinConfigured(duckingEngine, roomId)
        /\ duckingEngine' = SetUserSettings(duckingEngine, roomId, settings)
        /\ UNCHANGED <<rooms, sessionSpeakers, micEnabled, store, page, connection>>

CallEmergencyOverride ==
    \E roomId \in AllRooms :
        /\ duckingEngine' = EngineEmergencyOverride(duckingEngine, roomId)
        /\ UNCHANGED <<rooms, sessionSpeakers, micEnabled, store, page, connection>>

HoldTimeoutFires ==
    \E roomId \in duckingEngine.holdTimeouts :
        /\ duckingEngine.created
        /\ duckingEngine' = HoldTimeoutExpired(duckingEngine, roomId)
        /\ UNCHANGED <<rooms, sessionSpeakers, micEnabled, store, page, connection>>

EngineNext ==
    \/ CallInitializeRooms
    \/ CallOnSpeakerEvent
    \/ CallSetUserSettings
    \/ CallEmergencyOverride
    \/ HoldTimeoutFires

EngineSpec == EngineInit /\ [][EngineNext]_vars

\* The schema's emergency group and its EMS-DISPATCH group, a secondary-static
\* group of priority 75, with a dynamic group.
DispatchRooms == {"emg", "ems", "rd"}

\* initializeRooms(rooms) with the dispatch groups.
CallInitializeDispatchRooms ==
    /\ duckingEngine.roomData = {}
    /\ duckingEngine' = InitializeRooms(duckingEngine, DispatchRooms)
    /\ UNCHANGED <<rooms, sessionSpeakers, micEnabled, store, page, connection>>

\* onSpeakerEvent for a dispatch group.
CallOnDispatchSpeakerEvent ==
    \E roomId \in DispatchRooms, participantId \in Identities, isSpeaking \in BOOLEAN :
        /\ duckingEngine' = OnSpeakerEvent(duckingEngine, roomId, participantId, isSpeaking)
        /\ UNCHANGED <<rooms, sessionSpeakers, micEnabled, store, page, connection>>

\* The engine with the dispatch groups, driven by speaker events and timers.
DispatchNext ==
    \/ CallInitializeDispatchRooms
    \/ CallOnDispatchSpeakerEvent
    \/ HoldTimeoutFires

DispatchSpec == EngineInit /\ [][DispatchNext]_vars

\* initializeRooms(rooms) on an engine that has rooms already.
CallInitializeRoomsAgain ==
    \E roomList \in RoomSets :
        /\ duckingEngine.roomData # {}
        /\ duckingEngine' = InitializeRooms(duckingEngine, roomList)
        /\ UNCHANGED <<rooms, sessionSpeakers, micEnabled, store, page, connection>>

\* The engine driven through its methods by a caller that may initialize it
\* more than once.
ReinitializeNext ==
    \/ CallInitializeRooms
    \/ CallInitializeRoomsAgain
    \/ CallOnSpeakerEvent
    \/ CallSetUserSettings
    \/ HoldTimeoutFires

ReinitializeSpec == EngineInit /\ [][ReinitializeNext]_vars

Next ==
    \/ Connect
    \/ ActiveSpeakersChanged
    \/ JoinRoom
    \/ LeaveRoom
    \/ MuteRoom
    \/ SetRoomVolume
    \/ EmergencyOverride
    \/ HoldTimeoutFires

Spec == Init /\ [][Next]_vars

\* The sessions' life cycle: the controller with sessions that are lost and a
\* client that is disconnected and connected again.
LifecycleNext ==
    \/ Connect
    \/ ActiveSpeakersChanged
    \/ JoinRoom
    \/ LeaveRoom
    \/ EmergencyOverride
    \/ HoldTimeoutFires
    \/ SessionDisconnected
    \/ Disconnect

LifecycleSpec == Init /\ [][LifecycleNext]_vars

\* connect(connectionDetails) up to its await: the engine is created and
\* initialized, and connectToRoom starts its first attempt for every room.
ConnectStart ==
    \E roomList \in ConnectionRoomSets :
        /\ ~duckingEngine.created
        /\ connection.status # "pending"
        /\ duckingEngine' = InitializeRooms(NewEngine, roomList)
        /\ connection' =
               [status |-> "pending", details |-> roomList,
                attempts |-> [r \in roomList |-> FirstAttempt],
                abandoned |-> connection.abandoned, strays |-> connection.strays,
                micCalls |-> connection.micCalls]
        /\ UNCHANGED <<rooms, sessionSpeakers, micEnabled, store, page>>

\* connectToRoom: room.connect resolves before the timeout with the session
\* connected; the session is registered and the loop is left.  When that was
\* the last room of a connect() still pending, Promise.all resolves and
\* connect() goes on to connect the store, details being the order in which
\* the connection details carry the rooms.
AttemptSucceedsFor(roomId) ==
    /\ roomId \in DOMAIN connection.attempts
    /\ connection.attempts[roomId].phase = "attempting"
    /\ rooms' = rooms \cup {roomId}
    /\ sessionSpeakers' =
           [r \in (DOMAIN sessionSpeakers) \cup {roomId} |->
               IF r = roomId THEN NoSpeaker ELSE sessionSpeakers[r]]
    /\ micEnabled' =
           [r \in (DOMAIN micEnabled) \cup {roomId} |->
               IF r = roomId THEN FALSE ELSE micEnabled[r]]
    /\ LET resolves ==
               /\ connection.status = "pending"
               /\ \A r \in DOMAIN connection.attempts \ {roomId} :
                     connection.attempts[r].phase = "connected"
       IN  /\ connection' =
                  [connection EXCEPT
                      !.attempts[roomId].phase = "connected",
                      !.status = IF resolves THEN "resolved" ELSE @]
           /\ \E details \in Orderings(connection.details) :
                  store' = IF resolves THEN StoreConnect(store, details) ELSE store
    /\ UNCHANGED <<duckingEngine, page>>

AttemptSucceeds ==
    \E roomId \in AllRooms :
        AttemptSucceedsFor(roomId)

\* connectToRoom's catch: room.connect rejects, or the 15 s of the timeout
\* pass first, or the session is not connected.  retryCount is incremented,
\* then either the delay is computed and awaited or the error is thrown; the
\* thrown error rejects Promise.all and with it a connect() still pending,
\* whose catch logs and rethrows.
AfterCatch(c, roomId) ==
    LET retryCount == c.attempts[roomId].retryCount + 1
    IN  IF retryCount < MaxRetries
        THEN [c EXCEPT !.attempts[roomId] =
                 [retryCount |-> retryCount, phase |-> "waiting",
                  delay |-> RetryDelay(retryCount)]]
        ELSE [c EXCEPT
                 !.attempts[roomId] =
                     [retryCount |-> retryCount, phase |-> "failed",
                      delay |-> @.delay],
                 !.status = IF @ = "pending" THEN "rejected" ELSE @]

AttemptFailsFor(roomId) ==
    /\ roomId \in DOMAIN connection.attempts
    /\ connection.attempts[roomId].phase = "attempting"
    /\ connection' = AfterCatch(connection, roomId)
    /\ UNCHANGED <<duckingEngine, rooms, sessionSpeakers, micEnabled, store, page>>

AttemptFails ==
    \E roomId \in AllRooms :
        AttemptFailsFor(roomId)

\* connectToRoom: the delay is over and the loop starts its next attempt.
RetryAfterDelay ==
    \E roomId \in DOMAIN connection.attempts :
        /\ connection.attempts[roomId].phase = "waiting"
        /\ connection' = [connection EXCEPT !.attempts[roomId].phase = "attempting"]
        /\ UNCHANGED <<duckingEngine, rooms, sessionSpeakers, micEnabled, store, page>>

\* connectToRoom: the 15 s of the timeout pass while room.connect is pending.
\* The race rejects and the catch runs as for any failure; nothing disconnects
\* the Room object, whose handlers are set and whose connect goes on.
AttemptTimesOutFor(roomId) ==
    /\ roomId \in DOMAIN connection.attempts
    /\ connection.attempts[roomId].phase = "attempting"
    /\ Cardinality(connection.abandoned) + Cardinality(connection.strays) < MaxAbandoned
    /\ connection' =
           [AfterCatch(connection, roomId) EXCEPT
               !.abandoned = @ \cup {<<roomId, connection.attempts[roomId].retryCount>>}]
    /\ UNCHANGED <<duckingEngine, rooms, sessionSpeakers, micEnabled, store, page>>

AttemptTimesOut ==
    \E roomId \in AllRooms :
        AttemptTimesOutFor(roomId)

\* room.connect of an abandoned Room object resolves: the session is
\* connected, and no code of connectToRoom is waiting for it any more.
AbandonedConnects ==
    \E a \in connection.abandoned :
        /\ connection' =
               [connection EXCEPT !.abandoned = @ \ {a},
                                  !.strays = @ \cup {<<a[1], a[2], NoSpeaker>>}]
        /\ UNCHANGED <<duckingEngine, rooms, sessionSpeakers, micEnabled, store, page>>

\* The handler of RoomEvent.ActiveSpeakersChanged that setupRoomEventHandlers
\* set on a Room object before its connect, called by an abandoned session.
OnStraySpeakersChanged(a, speakers) ==
    LET roomId        == a[1]
        isSpeaking    == Len(speakers) > 0
        participantId == IF Len(speakers) > 0 THEN speakers[1] ELSE "unknown"
        reported      == IF isSpeaking THEN speakers[1] ELSE NoSpeaker
    IN  /\ reported # a[3]
        /\ connection' =
               [connection EXCEPT !.strays = (@ \ {a}) \cup {<<a[1], a[2], reported>>}]
        /\ duckingEngine' =
               IF duckingEngine.created
               THEN OnSpeakerEvent(duckingEngine, roomId, participantId, isSpeaking)
               ELSE duckingEngine
        /\ store' = SetSpeaking(store, roomId, isSpeaking)
        /\ UNCHANGED <<rooms, sessionSpeakers, micEnabled, page>>

StraySpeakersChanged ==
    \E a \in connection.strays, speakers \in {<<>>, <<"p1">>} :
        OnStraySpeakersChanged(a, speakers)

\* Connection details the store can be connected with: the example groups
\* of the schema, two of which have priority 80, and the mock groups of the
\* route, in every order.
DetailLists ==
    Orderings({"emg", "fire", "police"}) \cup Orderings({"emg", "gen", "rd"})

\* useMultiTalkgroupStore.connect(connectionDetails)
CallStoreConnect ==
    \E details \in DetailLists :
        /\ ~store.isConnected
        /\ store' = StoreConnect(store, details)
        /\ UNCHANGED <<duckingEngine, rooms, sessionSpeakers, micEnabled, page, connection>>

\* useMultiTalkgroupStore.joinTalkgroup(roomId)
CallJoinTalkgroup ==
    \E roomId \in RoomArgs :
        /\ store' = JoinTalkgroup(store, roomId)
        /\ UNCHANGED <<duckingEngine, rooms, sessionSpeakers, micEnabled, page, connection>>

\* useMultiTalkgroupStore.leaveTalkgroup(roomId)
CallLeaveTalkgroup ==
    \E roomId \in RoomArgs :
        /\ store' = LeaveTalkgroup(store, roomId)
        /\ UNCHANGED <<duckingEngine, rooms, sessionSpeakers, micEnabled, page, connection>>

\* useMultiTalkgroupStore.toggleMute(roomId)
CallToggleMute ==
    \E roomId \in RoomArgs :
        /\ store' = ToggleMute(store, roomId)
        /\ UNCHANGED <<duckingEngine, rooms, sessionSpeakers, micEnabled, page, connection>>

\* useMultiTalkgroupStore.disconnect()
CallStoreDisconnect ==
    /\ store.isConnected
    /\ store' = StoreDisconnect(store)
    /\ UNCHANGED <<duckingEngine, rooms, sessionSpeakers, micEnabled, page, connection>>

\* useMultiTalkgroupStore.connect(connectionDetails), whether or not the store
\* is connected already.
CallStoreConnectAgain ==
    \E details \in DetailLists :
        /\ store' = StoreConnect(store, details)
        /\ UNCHANGED <<duckingEngine, rooms, sessionSpeakers, micEnabled, page, connection>>

\* useMultiTalkgroupStore.setSpeaking(roomId, isSpeaking)
CallSetSpeaking ==
    \E roomId \in RoomArgs, isSpeaking \in BOOLEAN :
        /\ store' = SetSpeaking(store, roomId, isSpeaking)
        /\ UNCHANGED <<duckingEngine, rooms, sessionSpeakers, micEnabled, page, connection>>

\* The store driven through its own actions.
StoreNext ==
    \/ CallStoreConnect
    \/ CallJoinTalkgroup
    \/ CallLeaveTalkgroup
    \/ CallToggleMute
    \/ CallStoreDisconnect

StoreSpec == Init /\ [][StoreNext]_vars

\* The store with speakers, connected any number of times.
SpeakingNext ==
    \/ CallStoreConnectAgain
    \/ CallSetSpeaking
    \/ CallJoinTalkgroup
    \/ CallLeaveTalkgroup
    \/ CallStoreDisconnect

SpeakingSpec == Init /\ [][SpeakingNext]_vars

\* connect() with its attempts, retries and failures, and disconnect() at any
\* moment the engine exists.
ConnectNext ==
    \/ ConnectStart
    \/ AttemptSucceeds
    \/ AttemptFails
    \/ RetryAfterDelay
    \/ Disconnect

ConnectSpec == Init /\ [][ConnectNext]_vars

\* joinRoom(roomId) up to its await: the store is told, then
\* setMicrophoneEnabled(true) is issued on the session.
JoinRoomStart ==
    \E roomId \in RoomArgs :
        /\ roomId \in rooms
        /\ <<"join", roomId>> \notin connection.micCalls
        /\ store' = JoinTalkgroup(store, roomId)
        /\ connection' = [connection EXCEPT !.micCalls = @ \cup {<<"join", roomId>>}]
        /\ UNCHANGED <<duckingEngine, rooms, sessionSpeakers, micEnabled, page>>

\* setMicrophoneEnabled(true) of a joinRoom settles: the microphone is on, or
\* the rejection is caught and logged; joinRoom returns.
JoinMicrophoneSettles ==
    \E roomId \in AllRooms, ok \in BOOLEAN :
        /\ <<"join", roomId>> \in connection.micCalls
        /\ micEnabled' = IF ok /\ roomId \in rooms
                         THEN [micEnabled EXCEPT ![roomId] = TRUE]
                         ELSE micEnabled
        /\ connection' = [connection EXCEPT !.micCalls = @ \ {<<"join", roomId>>}]
        /\ UNCHANGED <<duckingEngine, rooms, sessionSpeakers, store, page>>

\* leaveRoom(roomId) up to its await: setMicrophoneEnabled(false) is issued.
LeaveRoomStart ==
    \E roomId \in RoomArgs :
        /\ roomId \in rooms
        /\ <<"leave", roomId>> \notin connection.micCalls
        /\ connection' = [connection EXCEPT !.micCalls = @ \cup {<<"leave", roomId>>}]
        /\ UNCHANGED <<duckingEngine, rooms, sessionSpeakers, micEnabled, store, page>>

\* setMicrophoneEnabled(false) of a leaveRoom settles: the microphone is off
\* and the store is told, or the rejection leaves leaveRoom by its await.
LeaveMicrophoneSettles ==
    \E roomId \in AllRooms, ok \in BOOLEAN :
        /\ <<"leave", roomId>> \in connection.micCalls
        /\ micEnabled' = IF ok /\ roomId \in rooms
                         THEN [micEnabled EXCEPT ![roomId] = FALSE]
                         ELSE micEnabled
        /\ store' = IF ok THEN LeaveTalkgroup(store, roomId) ELSE store
        /\ connection' = [connection EXCEPT !.micCalls = @ \ {<<"leave", roomId>>}]
        /\ UNCHANGED <<duckingEngine, rooms, sessionSpeakers, page>>

\* Calls of joinRoom and leaveRoom that overlap.
OverlapNext ==
    \/ Connect
    \/ JoinRoomStart
    \/ JoinMicrophoneSettles
    \/ LeaveRoomStart
    \/ LeaveMicrophoneSettles

OverlapSpec == Init /\ [][OverlapNext]_vars

\* Connecting with attempts that the timeout ends, whose Room objects live on.
AbandonNext ==
    \/ ConnectStart
    \/ AttemptSucceeds
    \/ AttemptFails
    \/ AttemptTimesOut
    \/ RetryAfterDelay
    \/ AbandonedConnects
    \/ StraySpeakersChanged
    \/ Disconnect

AbandonSpec == Init /\ [][AbandonNext]_vars

\* The controller with the caller's settings: joining, the page's mute
\* toggle, and volumes of any number, while speakers come and go.
SettingsNext ==
    \/ Connect
    \/ ActiveSpeakersChanged
    \/ JoinRoom
    \/ HandleToggleMute
    \/ SetRoomVolumeAny
    \/ HoldTimeoutFires

SettingsSpec == Init /\ [][SettingsNext]_vars

-----------------------------------------------------------------------------
(* Properties of the ducking engine.                                        *)

Engine == duckingEngine

GainRooms == DOMAIN Engine.gainNodes

IsMuted(roomId) ==
    roomId \in DOMAIN Engine.userSettings /\ Engine.userSettings[roomId].isMuted

\* emergencyOverride(roomId) has added its synthetic speaker.
OverrideInForce(roomId) == <<roomId, "emergency-override">> \in Engine.activeSpeakers

EmergencySpeaking ==
    \E s \in Engine.activeSpeakers : RoomType(s[1]) = "static-priority"

\* C1: whenever an active speaker belongs to a priority-static talkgroup, the
\* target gain of every talkgroup of another kind is at most 0.0001.
C1_EmergencyDucksOthers ==
    EmergencySpeaking =>
        \A r \in GainRooms :
            RoomType(r) # "static-priority" => Engine.gainNodes[r] <= Epsilon

C3_EmergencyFloor ==
    \A r \in GainRooms :
        ( /\ RoomType(r) = "static-priority"
          /\ ~IsMuted(r)
          /\ GetUserVolume(Engine, r) \in 0..FullGain
          /\ \A s \in Engine.activeSpeakers : s[1] = r )
        => Engine.gainNodes[r] >= EmergencyFloor

-----------------------------------------------------------------------------
(* Properties of the controller, the engine and the store together.         *)

\* The engine holds a speaker of a participant of the session of roomId.
HasSessionSpeaker(e, roomId) ==
    \E p \in Identities : <<roomId, p>> \in e.activeSpeakers

\* C4: when the speaker list of a session becomes empty while the engine has a
\* speaker of that session, the forwarded stop event removes the speaker and
\* starts the hold timer of the talkgroup.
C4_StopLeavesSpeaking ==
    [][\A r \in rooms :
          ( /\ OnActiveSpeakersChanged(r, <<>>)
            /\ HasSessionSpeaker(duckingEngine, r) )
          => ( /\ ~HasSessionSpeaker(duckingEngine', r)
               /\ r \in duckingEngine'.holdTimeouts )]_vars

\* C5: the engine holds at most one speaker of session participants per
\* talkgroup.
C5_OneSpeakerPerTalkgroup ==
    \A r \in GainRooms :
        Cardinality({s \in Engine.activeSpeakers :
                        s[1] = r /\ s[2] \in Identities}) <= 1

\* E is at 1.0 and every other talkgroup at 0.0 in engine state e.
EmergencyGains(e, E) ==
    /\ e.gainNodes[E] = FullGain
    /\ \A r \in DOMAIN e.gainNodes : r # E => e.gainNodes[r] = 0

\* C6: when emergencyOverride(E) on a priority-static talkgroup returns, E is
\* at 1.0, every other talkgroup is at 0.0 and isEmergencyActive is true.
C6_OverrideForcesGains ==
    [][\A E \in rooms :
          (RoomType(E) = "static-priority" /\ EmergencyOverrideCall(E))
          => (EmergencyGains(duckingEngine', E) /\ store'.isEmergencyActive)]_vars

\* C7: muting E while the override on E is in force and E is at 1.0 records
\* the muted flag and leaves E at 1.0.
C7_MuteKeepsOverride ==
    [][\A E \in rooms :
          ( /\ OverrideInForce(E)
            /\ duckingEngine.gainNodes[E] = FullGain
            /\ MuteRoomCall(E, TRUE) )
          => ( /\ duckingEngine'.userSettings[E].isMuted
               /\ duckingEngine'.gainNodes[E] = FullGain )]_vars

\* C8: with the override on E in force, E at 1.0 and the others at 0.0, a
\* recomputation after a speaker event of another talkgroup or after a hold
\* timer leaves E at 1.0 and the others at 0.0.
C8_RecomputationKeepsOverride ==
    [][\A E \in rooms :
          ( /\ OverrideInForce(E)
            /\ EmergencyGains(duckingEngine, E)
            /\ \/ \E r \in rooms \ {E}, speakers \in SpeakerLists :
                      OnActiveSpeakersChanged(r, speakers)
               \/ HoldTimeoutFires )
          => EmergencyGains(duckingEngine', E)]_vars

\* C9: emergencyOverride(id) on a talkgroup that is not priority-static
\* changes no state of the engine or the store.
C9_InvalidTargetNoChange ==
    [][\A r \in rooms :
          (RoomType(r) # "static-priority" /\ EmergencyOverrideCall(r))
          => UNCHANGED <<duckingEngine, store>>]_vars

\* C10: isEmergencyActive is true exactly when the store's set of active
\* speakers holds a priority-static talkgroup.
C10_EmergencyFlagIffSpeaker ==
    store.isEmergencyActive <=>
        \E r \in store.activeSpeakers : RoomType(r) = "static-priority"

-----------------------------------------------------------------------------
(* Properties of the microphone routing.                                    *)

MicrophoneRooms == {r \in DOMAIN micEnabled : micEnabled[r]}

\* C11: after any sequence of connect, join, leave and transmit selections
\* the microphone is enabled on at most one talkgroup session.
C11_OneMicrophone == Cardinality(MicrophoneRooms) <= 1

\* C12: when a transmit selection enables the microphone on its talkgroup,
\* the microphone of every other talkgroup the call set out to disable is
\* off, also when one of the disabling operations was rejected.
C12_DisabledBeforeEnabled ==
    [][\A i \in 1..MaxTransmitCalls :
          EnableSettles(i, TRUE)
          => \A r \in page.transmitCalls[i].others : ~micEnabled'[r]]_vars

\* C13: once two overlapping transmit selections of two joined talkgroups
\* have both returned, the microphone is enabled only on the talkgroup selected
\* last, and the recorded transmit target is that talkgroup.
C13_LastSelectionWins ==
    (/\ Len(page.transmitCalls) >= 2
     /\ AllReturned(page.transmitCalls)
     /\ page.transmitCalls[1].target # page.transmitCalls[2].target
     /\ \A i \in 1..2 :
            /\ page.transmitCalls[i].target \in rooms
            /\ store.talkgroups[page.transmitCalls[i].target].isJoined)
    => LET last == page.transmitCalls[Len(page.transmitCalls)].target
       IN  /\ page.selectedTransmitRoom = last
           /\ MicrophoneRooms \subseteq {last}

\* C14: the transmit target is no talkgroup, or a talkgroup that is joined
\* and may publish.
C14_TransmitTargetJoined ==
    page.selectedTransmitRoom # NoTransmitRoom
    => /\ page.selectedTransmitRoom \in DOMAIN store.talkgroups
       /\ store.talkgroups[page.selectedTransmitRoom].isJoined
       /\ CanPublish(page.selectedTransmitRoom)

-----------------------------------------------------------------------------
(* Properties of the ducking rules and the hold timers.                     *)

\* A start or stop event of the engine, as a step.
SpeakerEventStep(roomId, participantId, isSpeaking) ==
    duckingEngine' = OnSpeakerEvent(duckingEngine, roomId, participantId, isSpeaking)

\* C15: with rd (dynamic) speaking and no emergency speaker, a start event on
\* gen (secondary-static) leaves gen at its user volume and ducks rd to 0.1
\* times its user volume although rd has its own speaker.
C15_OwnSpeakerStillDucked ==
    [][\A p \in Identities :
          (/\ {"gen", "rd"} \subseteq duckingEngine.roomData
           /\ HasActiveSpeaker(duckingEngine, "rd")
           /\ ~EmergencySpeaking
           /\ SpeakerEventStep("gen", p, TRUE))
          => /\ duckingEngine'.gainNodes["gen"] = GetUserVolume(duckingEngine', "gen")
             /\ duckingEngine'.gainNodes["rd"] =
                    GetUserVolume(duckingEngine', "rd") \div 10]_vars

\* The kinds whose talkgroups a speaker of the given kind ducks, and the
\* multiplier applied to their user volume (in 1/10000).
C16_Ducks(kind) ==
    CASE kind = "static-priority"  -> {"static-secondary", "dynamic", "adhoc"}
      [] kind = "static-secondary" -> {"dynamic", "adhoc"}
      [] kind = "dynamic"          -> {"adhoc"}
      [] OTHER                     -> {}

C16_DuckLevel(kind) ==
    CASE kind = "static-priority"  -> 0
      [] kind = "static-secondary" -> FullGain \div 10
      [] kind = "dynamic"          -> (6 * FullGain) \div 10
      [] OTHER                     -> FullGain

\* C16: on a recomputation with a non-empty set of active speakers, a
\* talkgroup without a speaker whose kind is ducked by the kind of the
\* highest-priority speaker gets duck-level times its user volume: 0.0 under
\* priority-static, 0.1 under secondary-static, 0.6 under dynamic speech.
C16_DuckLevelApplied ==
    [][\A r \in AllRooms, p \in Identities :
          (r \in duckingEngine.roomData /\ SpeakerEventStep(r, p, TRUE))
          => LET e  == duckingEngine'
                 kH == GetPriorityType(HighestPriority(e))
             IN  \A t \in e.roomData :
                    (~HasActiveSpeaker(e, t) /\ RoomType(t) \in C16_Ducks(kH))
                    => e.gainNodes[t] =
                           (C16_DuckLevel(kH) * GetUserVolume(e, t)) \div FullGain]_vars

\* C17: a stop event on a talkgroup with a positive hold time changes no gain
\* target and leaves the talkgroup's hold timer pending; when a hold timer
\* fires with no active speaker, every talkgroup's target is its effective
\* user volume.
C17_HoldDefersRestore ==
    [][/\ \A r \in AllRooms, p \in Identities :
            (/\ HoldTimeSeconds(r) > 0
             /\ r \in duckingEngine.roomData
             /\ <<r, p>> \in duckingEngine.activeSpeakers
             /\ SpeakerEventStep(r, p, FALSE))
            => /\ duckingEngine'.gainNodes = duckingEngine.gainNodes
               /\ r \in duckingEngine'.holdTimeouts
               /\ <<r, p>> \notin duckingEngine'.activeSpeakers
       /\ (HoldTimeoutFires /\ duckingEngine.activeSpeakers = {})
            => \A t \in DOMAIN duckingEngine'.gainNodes :
                   duckingEngine'.gainNodes[t] = GetUserVolume(duckingEngine', t)]_vars

\* A hold timer is pending after the last speaker stopped, and a talkgroup
\* ducked by that speaker is still below its user volume.
C17_Witness ==
    /\ Engine.activeSpeakers = {}
    /\ \E r \in Engine.holdTimeouts : HoldTimeSeconds(r) > 0
    /\ \E t \in GainRooms :
          /\ ~IsMuted(t)
          /\ Engine.gainNodes[t] = GetUserVolume(Engine, t) \div 10
          /\ GetUserVolume(Engine, t) = FullGain

\* C18: a stop event on a talkgroup whose hold time is 0 recomputes the gains
\* in the same step and leaves no hold timer pending for that talkgroup.
C18_ZeroHoldImmediate ==
    [][\A r \in AllRooms, p \in Identities :
          (/\ HoldTimeSeconds(r) = 0
           /\ r \in duckingEngine.roomData
           /\ <<r, p>> \in duckingEngine.activeSpeakers
           /\ SpeakerEventStep(r, p, FALSE))
          => /\ r \notin duckingEngine'.holdTimeouts
             /\ duckingEngine'.gainNodes =
                    UpdateAllGainLevels(duckingEngine').gainNodes]_vars

-----------------------------------------------------------------------------
(* Properties of the sessions' life cycle.                                  *)

\* C19: when a session disconnects while the engine holds an active speaker
\* of its talkgroup, the speaker is removed from the engine and the
\* talkgroup's hold timer starts.
C19_DisconnectStopsSpeaker ==
    [][\A r \in AllRooms :
          (OnSessionDisconnected(r) /\ HasSessionSpeaker(duckingEngine, r))
          => /\ ~HasSessionSpeaker(duckingEngine', r)
             /\ r \in duckingEngine'.holdTimeouts]_vars

-----------------------------------------------------------------------------
(* Properties of the engine's handling of unknown talkgroup ids.            *)

\* The engine's state apart from the stored user settings.
ApartFromSettings(e) == [e EXCEPT !.userSettings = << >>]

C21_StoreVolumeClamped ==
    [][\A roomId \in DOMAIN store.talkgroups, volume \in VolumeInputs :
          SetRoomVolumeCall(roomId, volume)
          => LET stored == store'.talkgroups[roomId].volume
             IN  /\ stored \in 0..FullGain
                 /\ volume \in 0..FullGain => stored = volume
                 /\ (volume # NaN /\ volume < 0) => stored = 0
                 /\ (volume # NaN /\ volume > FullGain) => stored = FullGain
                 /\ volume = NaN => stored \in {0, FullGain}]_vars

\* C22: the engine keeps every stored volume, and every gain target it
\* schedules, within [0,1], whatever number set_user_settings was given.
C22_EngineVolumeClamped ==
    /\ \A r \in DOMAIN Engine.userSettings :
          Engine.userSettings[r].volume \in 0..FullGain
    /\ \A r \in GainRooms : Engine.gainNodes[r] \in 0..FullGain

\* The muted value the engine holds for a room; false where it holds none.
EngineMuted(e, roomId) ==
    roomId \in DOMAIN e.userSettings /\ e.userSettings[roomId].isMuted

\* The store after the page's mute toggle of roomId.
StoreAfterToggle(s, roomId) == ToggleMute(s, roomId)

\* The engine after the page's mute toggle of roomId, the store being s.
EngineAfterToggle(e, s, roomId) ==
    IF e.created
    THEN SetUserSettings(e, roomId, [isMuted |-> ~s.talkgroups[roomId].isMuted])
    ELSE e

C30_DeniedMicrophoneStillJoins ==
    /\ [](\A roomId \in rooms \cap DOMAIN store.talkgroups :
             StoreAfterJoin(store, roomId, FALSE).talkgroups[roomId].isJoined)
    /\ [][\A roomId \in rooms \cap DOMAIN store.talkgroups :
             JoinRoomCall(roomId, FALSE)
             => /\ store'.talkgroups[roomId].isJoined
                /\ store' = [store EXCEPT !.talkgroups[roomId].isJoined = TRUE]
                /\ \A other \in DOMAIN store.talkgroups \ {roomId} :
                      store'.talkgroups[other] = store.talkgroups[other]
                /\ UNCHANGED <<micEnabled, rooms, sessionSpeakers, duckingEngine>>]_vars

\* A talkgroup that connect did not join is joined although its microphone
\* is off: the request for it was denied.
C30_Witness ==
    \E r \in rooms \cap DOMAIN store.talkgroups :
        /\ RoomType(r) = "dynamic"
        /\ store.talkgroups[r].isJoined
        /\ ~micEnabled[r]

\* C24: initializeRooms on an engine that has rooms already leaves the engine
\* as it is, whether it is given the same rooms (nothing to do) or other
\* rooms (refused): the gain nodes keep their current gains and no room is
\* added.
C24_SecondInitializeKeepsEngine ==
    [][\A roomList \in RoomSets :
          ( /\ duckingEngine.roomData # {}
            /\ duckingEngine' = InitializeRooms(duckingEngine, roomList) )
          => duckingEngine' = duckingEngine]_vars

\* connectToRoom's loop of every room of the last connect().
Attempts == connection.attempts

\* C25: connectToRoom makes at most 3 attempts per session and none after
\* the third has failed; the delay awaited before the second attempt is 1 s
\* and before the third 2 s, and no delay is above 5 s.
C25_RetrySchedule ==
    /\ [](\A r \in DOMAIN Attempts :
             /\ Attempts[r].retryCount <= MaxRetries
             /\ Attempts[r].phase \in {"attempting", "connected", "waiting"}
                => Attempts[r].retryCount + 1 <= 3
             /\ Attempts[r].delay <= 5000
             /\ (Attempts[r].phase = "waiting" /\ Attempts[r].retryCount = 1)
                => Attempts[r].delay = 1000
             /\ (Attempts[r].phase = "waiting" /\ Attempts[r].retryCount = 2)
                => Attempts[r].delay = 2000)
    /\ [][\A r \in DOMAIN Attempts :
             (Attempts[r].phase = "failed" /\ connection'.details = connection.details
                                           /\ connection'.status # "pending")
             => /\ r \in DOMAIN connection'.attempts
                /\ connection'.attempts[r] = Attempts[r]]_vars

\* C26: once connect() has reported the failure of a session that used up
\* its attempts, nothing of the connect remains: no session is registered,
\* the engine is gone and the store is disconnected.
C26_FailedConnectLeavesNothing ==
    connection.status = "rejected"
    => /\ rooms = {}
       /\ ~duckingEngine.created
       /\ ~store.isConnected

C28_DisconnectCancelsConnect ==
    ( /\ ~duckingEngine.created
      /\ connection.status \in {"resolved", "rejected"}
      /\ \A r \in DOMAIN Attempts : Attempts[r].phase \in {"connected", "failed"} )
    => /\ rooms = {}
       /\ ~store.isConnected

\* The place of a room in its priority order.
PlaceOf(order, roomId) == CHOOSE i \in 1..Len(order) : order[i] = roomId

\* The rank of a room identity in ascending order of the identities.
IdentityRank(roomId) ==
    CASE roomId = "adh"    -> 1
      [] roomId = "emg"    -> 2
      [] roomId = "fire"   -> 3
      [] roomId = "gen"    -> 4
      [] roomId = "police" -> 5
      [] roomId = "rd"     -> 6

\* The order is a permutation of the connected talkgroups with no lower
\* priority before a higher one.
ByPriority(order, talkgroups) ==
    /\ Range(order) = talkgroups
    /\ Len(order) = Cardinality(talkgroups)
    /\ \A i, j \in 1..Len(order) :
          i < j => RoomPriority(order[i]) >= RoomPriority(order[j])

\* C29: while the store is connected its priorityOrder is a permutation of
\* the connected talkgroups in descending priority, talkgroups of equal
\* priority in ascending order of their identities, whatever the order of
\* the rooms in the connection details.
C29_PriorityOrderByIdentity ==
    store.isConnected
    => /\ ByPriority(store.priorityOrder, DOMAIN store.talkgroups)
       /\ \A i, j \in 1..Len(store.priorityOrder) :
             ( /\ i < j
               /\ RoomPriority(store.priorityOrder[i]) = RoomPriority(store.priorityOrder[j]) )
             => IdentityRank(store.priorityOrder[i]) < IdentityRank(store.priorityOrder[j])

\* C29, as the store has it: connect leaves a priorityOrder that is a
\* permutation of the connected talkgroups in descending priority, talkgroups
\* of equal priority in the order in which the connection details carry them;
\* and no other action of a connected store changes it.
C29_PriorityOrderStable ==
    /\ [](store.isConnected
          => ByPriority(store.priorityOrder, DOMAIN store.talkgroups))
    /\ [][\A details \in DetailLists :
             (~store.isConnected /\ store' = StoreConnect(store, details))
             => \A a, b \in Range(details) :
                   ( /\ RoomPriority(a) = RoomPriority(b)
                     /\ PlaceOf(details, a) < PlaceOf(details, b) )
                   => PlaceOf(store'.priorityOrder, a) < PlaceOf(store'.priorityOrder, b)]_vars
    /\ [][(store.isConnected /\ store'.isConnected)
          => store'.priorityOrder = store.priorityOrder]_vars

\* The store is connected with two talkgroups of priority 80 that stand in
\* the order of the connection details, the later identity first.
C29_Witness ==
    /\ store.isConnected
    /\ store.priorityOrder = <<"emg", "police", "fire">>

-----------------------------------------------------------------------------
(* Properties of the hold interval, the kinds and the settings.            *)

\* With no speaker active, a talkgroup whose target is below its effective
\* user volume is still ducked on behalf of a talkgroup in its hold interval.
HeldDucked(e, t) ==
    /\ e.activeSpeakers = {}
    /\ t \in DOMAIN e.gainNodes
    /\ e.gainNodes[t] < GetUserVolume(e, t)

\* C31: while talkgroup A is in its hold interval and no speaker is active, a
\* start or stop event on another talkgroup that leaves A's hold timer pending
\* raises the target of no third talkgroup that is still ducked because of A.
C31_HoldSurvivesOtherEvents ==
    [][\A a \in AllRooms, b \in AllRooms, p \in Identities, isSpeaking \in BOOLEAN :
          ( /\ a # b
            /\ duckingEngine.holdTimeouts = {a}
            /\ SpeakerEventStep(b, p, isSpeaking)
            /\ a \in duckingEngine'.holdTimeouts )
          => \A t \in AllRooms \ {a, b} :
                HeldDucked(duckingEngine, t)
                => duckingEngine'.gainNodes[t] <= duckingEngine.gainNodes[t]]_vars

\* C32: a start event on a talkgroup whose hold timer is pending removes that
\* timer, so that it cannot fire, and the talkgroup has an active speaker; a
\* stop event leaves exactly one timer for its talkgroup, whether or not one
\* was pending; a timer that fires is removed; and only initialized
\* talkgroups have a timer.
C32_StartCancelsHold ==
    /\ [](Engine.holdTimeouts \subseteq Engine.roomData)
    /\ [][\A r \in AllRooms, p \in Identities :
             /\ ( /\ r \in duckingEngine.holdTimeouts
                  /\ SpeakerEventStep(r, p, TRUE) )
                => /\ duckingEngine'.holdTimeouts = duckingEngine.holdTimeouts \ {r}
                   /\ <<r, p>> \in duckingEngine'.activeSpeakers
             /\ ( /\ r \in duckingEngine.roomData
                  /\ <<r, p>> \in duckingEngine.activeSpeakers
                  /\ SpeakerEventStep(r, p, FALSE) )
                => duckingEngine'.holdTimeouts = duckingEngine.holdTimeouts \cup {r}
             /\ ( /\ r \in duckingEngine.holdTimeouts
                  /\ duckingEngine' = HoldTimeoutExpired(duckingEngine, r) )
                => duckingEngine'.holdTimeouts = duckingEngine.holdTimeouts \ {r}]_vars

\* A talkgroup with a positive hold time has an active speaker and no timer
\* while the timer of another talkgroup is pending.
C32_Witness ==
    \E r \in Engine.roomData :
        /\ HoldTimeSeconds(r) > 0
        /\ HasActiveSpeaker(Engine, r)
        /\ r \notin Engine.holdTimeouts
        /\ \E t \in Engine.holdTimeouts : t # r

\* The declared kinds of the talkgroups of the active speakers whose priority
\* is the highest.
KindsOfHighestSpeakers(e) ==
    {RoomType(s[1]) : s \in {x \in e.activeSpeakers :
                                RoomPriority(x[1]) = HighestPriority(e)}}

\* C33: whenever a speaker is active, the kind the gain computation uses for
\* the highest-priority speaker is the declared kind of that speaker's
\* talkgroup.
C33_KindOfHighestSpeaker ==
    Engine.activeSpeakers # {}
    => HighestPriorityType(Engine) \in KindsOfHighestSpeakers(Engine)

\* C34: while the highest-priority active speaker is of kind priority-static,
\* the ramp that the recomputation schedules for every talkgroup it takes to
\* 0.0 lasts 50 ms, whatever the kind of that talkgroup.
C34_EmergencyRampIs50ms ==
    ( /\ Engine.activeSpeakers # {}
      /\ HighestPriorityType(Engine) = "static-priority" )
    => \A t \in GainRooms \cap Engine.roomData :
          ( /\ ~HasActiveSpeaker(Engine, t)
            /\ CalculateTargetGain(Engine, t, "static-priority") = 0 )
          => ResponseTime(t) = 50

\* C35: setUserSettings on a talkgroup that has no active speaker of its own
\* while other speakers are active schedules for it the target that the gain
\* computation yields for those speakers with the new settings.
C35_SettingsKeepDucking ==
    [][\A r \in AllRooms, settings \in SettingsArgs :
          ( /\ duckingEngine.activeSpeakers # {}
            /\ r \in duckingEngine.roomData
            /\ ~HasActiveSpeaker(duckingEngine, r)
            /\ duckingEngine' = SetUserSettings(duckingEngine, r, settings) )
          => duckingEngine'.gainNodes[r] =
                CalculateTargetGain(duckingEngine', r, HighestPriorityType(duckingEngine'))]_vars

\* C36: once emergencyOverride has added its synthetic speaker to the engine,
\* every step that leaves the engine in place keeps that speaker, and as long
\* as it is there the recomputation sees a priority-static speaker as the
\* highest one.
C36_OverrideSpeakerStays ==
    /\ [][\A r \in AllRooms :
             ( /\ <<r, "emergency-override">> \in duckingEngine.activeSpeakers
               /\ duckingEngine'.created )
             => <<r, "emergency-override">> \in duckingEngine'.activeSpeakers]_vars
    /\ [](\A r \in AllRooms :
             OverrideInForce(r) => HighestPriorityType(Engine) = "static-priority")

\* The override is still in force after the store has dropped its emergency
\* flag and the overriding talkgroup's real speaker has stopped.
C36_Witness ==
    /\ OverrideInForce("emg")
    /\ ~store.isEmergencyActive
    /\ "emg" \in Engine.holdTimeouts
    /\ \E s \in Engine.activeSpeakers : s[1] # "emg"

\* C37: for every talkgroup of the store whose settings muteRoom or
\* setRoomVolume have passed to the engine, the engine's muted flag and volume
\* are the store's.
C37_EngineSettingsMatchStore ==
    \A r \in (DOMAIN store.talkgroups) \cap (DOMAIN Engine.userSettings) :
        /\ Engine.userSettings[r].isMuted = store.talkgroups[r].isMuted
        /\ Engine.userSettings[r].volume = store.talkgroups[r].volume

\* The sessions of talkgroup r whose handlers can call the engine: the one
\* registered in the controller's map and the abandoned ones that connected.
DeliveringSessions(r) ==
    Cardinality({a \in connection.strays : a[1] = r}) + (IF r \in rooms THEN 1 ELSE 0)

\* C38: at most one session per talkgroup can deliver speaker events to the
\* engine; no Room object of an abandoned attempt is connected next to the
\* session of a later attempt.
C38_OneSessionPerTalkgroup ==
    \A r \in AllRooms : DeliveringSessions(r) <= 1

\* C39: the microphone of a talkgroup's session is enabled only while the
\* store has that talkgroup joined, however the microphone operations of
\* overlapping joinRoom and leaveRoom calls settle.
C39_MicrophoneOnlyWhileJoined ==
    \A r \in rooms :
        micEnabled[r] => (r \in DOMAIN store.talkgroups /\ store.talkgroups[r].isJoined)

\* C40: in the store an id is in activeSpeakers exactly when its talkgroup is
\* in the map with isActiveSpeaker set, and every id of activeSpeakers is a
\* joined talkgroup.
C40_ActiveSpeakersConsistent ==
    /\ \A r \in store.activeSpeakers \cup DOMAIN store.talkgroups :
          (r \in store.activeSpeakers)
              <=> (r \in DOMAIN store.talkgroups /\ store.talkgroups[r].isActiveSpeaker)
    /\ \A r \in store.activeSpeakers :
          r \in DOMAIN store.talkgroups /\ store.talkgroups[r].isJoined

====
